---- MODULE Spec2Model ----
(***************************************************************************)
(* Model of controller.Route (go-api-controller/route.go): the Route       *)
(* object, its accessors and setters, register() and handleRequest(), the  *)
(* FrameworkRouter adapter they talk to, and the engine dispatching        *)
(* requests to the registered handlers.                                    *)
(***************************************************************************)
EXTENDS Integers, Sequences, FiniteSets, TLC

VARIABLES
    routes,      \* the Route objects, by pointer: RouteIds -> Route struct
    fwRouters,   \* the adapter instances: AdapterIds -> routing table (Seq of entries)
    obs,         \* the last completed call: its receiver, arguments and result
    hist,        \* history: per Route, the arguments of the last SetDefaultStatus and of the last
                 \* controllerFn assignment, and whether register ran since that SetDefaultStatus
    inflight     \* the dispatches running concurrently: Slots -> invocation of handleRequest

vars == <<routes, fwRouters, obs, hist, inflight>>

----------------------------------------------------------------------------
(* Bounds *)

\* the engine's routing table holds at most this many entries (register calls)
MaxEntries == 3
\* at most this many handleRequest invocations run at the same time
MaxInFlight == 2

----------------------------------------------------------------------------
(* Program constants *)

StatusCreated == 201
StatusOK == 200

----------------------------------------------------------------------------
(* Values *)

\* the nil ControllerFn and the nil FrameworkRoute interface value
NilFn == "nil"
NilFwRoute == 0

\* application handlers that can be attached
Fns == {"AddKitten", "GetKitten"}

\* arguments given to SetDefaultStatus (0 is Go's zero value of int)
StatusArgs == {0, 404}

Methods == {"GET", "POST", "PUT"}

\* a path pattern is a sequence of segments: a literal or a {name} placeholder
Lit(s) == [kind |-> "lit", name |-> s]
Var(n) == [kind |-> "var", name |-> n]

RouteIds == {"r1", "r2"}
AdapterIds == {"mux"}

\* Router: fwRouter is the adapter shared by a router and its sub-routers,
\* prefix the path prefix of the routes created on it
Routers ==
    [ root           |-> [fwRouter |-> "mux", prefix |-> <<>>],
      kittens_router |-> [fwRouter |-> "mux", prefix |-> <<Lit("kittens")>>] ]

\* SubRouterForPath / verb methods: fullPath = router prefix + path
NewRouteObject(router, method, path) ==
    [ fwRoute       |-> NilFwRoute,
      router        |-> router,
      method        |-> method,
      path          |-> path,
      fullPath      |-> Routers[router].prefix \o path,
      defaultStatus |-> 0,
      controllerFn  |-> NilFn ]

\* the example's two routes: c.POST("/kittens", ...) and kittens_router.GET("/{id}", ...)
RoutePlan ==
    [ r1 |-> [router |-> "root",           methods |-> {"POST"},       path |-> <<Lit("kittens")>>],
      r2 |-> [router |-> "kittens_router", methods |-> {"GET", "PUT"}, path |-> <<Var("id")>>] ]

\* inbound requests: method and path segments
ReqPaths == { <<"kittens">>, <<"abc">>, <<"kittens", "abc">> }
Requests == [method : Methods, path : ReqPaths]

----------------------------------------------------------------------------
(* The adapter: FrameworkRouter / FrameworkRoute *)

\* FrameworkRouter.NewRoute(method, path, handler): appends an entry to the
\* engine's table and returns the handle of that entry
NewRoute(table, method, path, handler) ==
    [ table  |-> Append(table, [method |-> method, pattern |-> path, handler |-> handler]),
      handle |-> Len(table) + 1 ]

VarNames(pattern) ==
    { pattern[i].name : i \in { j \in DOMAIN pattern : pattern[j].kind = "var" } }

\* FrameworkRoute.RouteVars(request): the named placeholders of the entry's
\* pattern bound to the request's path segments at their positions
FrameworkRouteVars(entry, r) ==
    [ n \in { m \in VarNames(entry.pattern) :
                \E i \in DOMAIN entry.pattern :
                    entry.pattern[i] = Var(m) /\ i \in DOMAIN r.path }
        |-> r.path[CHOOSE i \in DOMAIN entry.pattern :
                    entry.pattern[i] = Var(n) /\ i \in DOMAIN r.path] ]

\* the engine's match step: same method, same length, literals equal
Matches(entry, r) ==
    /\ entry.method = r.method
    /\ Len(entry.pattern) = Len(r.path)
    /\ \A i \in DOMAIN entry.pattern :
          entry.pattern[i].kind = "lit" => entry.pattern[i].name = r.path[i]

----------------------------------------------------------------------------
(* Request context construction *)

newResponseWriter(id, w, status) == [id |-> id, w |-> w, status |-> status]

newContextForRequest(rw, r, route) == [writer |-> rw, request |-> r, route |-> route]

----------------------------------------------------------------------------
(* Route: each method takes the heap of Route objects and the receiver      *)
(* pointer, and yields the heap after the call and the returned value.      *)

ControllerFn(heap, self) == [heap |-> heap, ret |-> heap[self].controllerFn]

FullPath(heap, self) == [heap |-> heap, ret |-> heap[self].fullPath]

Method(heap, self) == [heap |-> heap, ret |-> heap[self].method]

Path(heap, self) == [heap |-> heap, ret |-> heap[self].path]

\* variant: a nil handle yields an empty mapping instead of a panic
RouteVars_NilSafe(heap, fw, self, r) ==
    IF heap[self].fwRoute = NilFwRoute
    THEN [heap |-> heap, outcome |-> "returned", ret |-> <<>>]
    ELSE [heap |-> heap, outcome |-> "returned",
          ret |-> FrameworkRouteVars(
                      fw[Routers[heap[self].router].fwRouter][heap[self].fwRoute], r)]

\* a method call on the nil interface value panics
RouteVars(heap, fw, self, r) ==
    IF heap[self].fwRoute = NilFwRoute
    THEN [heap |-> heap, outcome |-> "panic", ret |-> <<>>]
    ELSE [heap |-> heap, outcome |-> "returned",
          ret |-> FrameworkRouteVars(
                      fw[Routers[heap[self].router].fwRouter][heap[self].fwRoute], r)]

\* variant: a function already attached is kept
SetControllerFn_KeepFirst(heap, self, fn) ==
    [heap |-> IF heap[self].controllerFn = NilFn
              THEN [heap EXCEPT ![self].controllerFn = fn]
              ELSE heap,
     ret |-> self]

\* variant: attaching a function also clears the status
SetControllerFn_ResetsStatus(heap, self, fn) ==
    [heap |-> [heap EXCEPT ![self].controllerFn = fn, ![self].defaultStatus = 0],
     ret |-> self]

SetControllerFn(heap, self, fn) ==
    [heap |-> [heap EXCEPT ![self].controllerFn = fn], ret |-> self]

\* variant: the status is fixed once the route is registered
SetDefaultStatus_OnlyBeforeRegister(heap, self, status) ==
    [heap |-> IF heap[self].fwRoute = NilFwRoute
              THEN [heap EXCEPT ![self].defaultStatus = status]
              ELSE heap,
     ret |-> self]

SetDefaultStatus(heap, self, status) ==
    [heap |-> [heap EXCEPT ![self].defaultStatus = status], ret |-> self]

\* variant: every method defaults to 200
ResolveDefaultStatus_AlwaysOK(method, status) ==
    IF status = 0 THEN StatusOK ELSE status

\* route.go:46-52
ResolveDefaultStatus(method, status) ==
    IF status = 0
    THEN IF method = "POST" THEN StatusCreated ELSE StatusOK
    ELSE status

\* route.go:56-60, the arguments of NewRoute
NewRouteArgs(rt, self) == [method |-> rt.method, path |-> rt.path, handler |-> self]

register(heap, fw, self, fn) ==
    LET rt   == heap[self]
        a    == Routers[rt.router].fwRouter
        args == NewRouteArgs(rt, self)
        nr   == NewRoute(fw[a], args.method, args.path, args.handler)
    IN  [ heap |-> [heap EXCEPT ![self].defaultStatus =
                                    ResolveDefaultStatus(rt.method, rt.defaultStatus),
                                ![self].controllerFn = fn,
                                ![self].fwRoute = nr.handle],
          fw   |-> [fw EXCEPT ![a] = nr.table],
          ret  |-> self ]

\* variant: one response wrapper is kept and reused by every dispatch
handleRequest_ctx_SharedWriter(heap, self, id, w, r) ==
    newContextForRequest(newResponseWriter(1, 1, heap[self].defaultStatus), r, self)

\* route.go:65-69: the context of one dispatch
handleRequest_ctx(heap, self, id, w, r) ==
    newContextForRequest(newResponseWriter(id, w, heap[self].defaultStatus), r, self)

\* variant: a nil controllerFn is skipped and the dispatch returns
handleRequest_call_SkipNil(heap, self, ctx) ==
    IF heap[self].controllerFn = NilFn
    THEN [outcome |-> "returned", calls |-> <<>>]
    ELSE [outcome |-> "returned", calls |-> <<[fn |-> heap[self].controllerFn, ctx |-> ctx]>>]

\* route.go:70: calling a nil func panics
handleRequest_call(heap, self, ctx) ==
    IF heap[self].controllerFn = NilFn
    THEN [outcome |-> "panic", calls |-> <<>>]
    ELSE [outcome |-> "returned", calls |-> <<[fn |-> heap[self].controllerFn, ctx |-> ctx]>>]

handleRequest(heap, self, id, w, r) ==
    LET ctx == handleRequest_ctx(heap, self, id, w, r)
        c   == handleRequest_call(heap, self, ctx)
    IN  [heap |-> heap, ctx |-> ctx, outcome |-> c.outcome, calls |-> c.calls]

----------------------------------------------------------------------------
(* State *)

Slots == 1 .. MaxInFlight

NoObs == [op |-> "none", route |-> "none", outcome |-> "none"]
NoHist == [set |-> FALSE, code |-> 0, regSince |-> FALSE, lastFn |-> NilFn]
Idle == [pc |-> "idle"]

Init ==
    /\ \E m \in { f \in [RouteIds -> Methods] : \A p \in RouteIds : f[p] \in RoutePlan[p].methods } :
          routes = [p \in RouteIds |->
                       NewRouteObject(RoutePlan[p].router, m[p], RoutePlan[p].path)]
    /\ fwRouters = [a \in AdapterIds |-> <<>>]
    /\ obs = NoObs
    /\ hist = [p \in RouteIds |-> NoHist]
    /\ inflight = [s \in Slots |-> Idle]

----------------------------------------------------------------------------
(* The setup phase and sequential dispatch: one action per call *)

Do_ControllerFn ==
    \E self \in RouteIds :
        LET res == ControllerFn(routes, self) IN
        /\ routes' = res.heap
        /\ obs' = [op |-> "ControllerFn", route |-> self, outcome |-> "returned", ret |-> res.ret]
        /\ UNCHANGED <<fwRouters, hist, inflight>>

Do_FullPath ==
    \E self \in RouteIds :
        LET res == FullPath(routes, self) IN
        /\ routes' = res.heap
        /\ obs' = [op |-> "FullPath", route |-> self, outcome |-> "returned", ret |-> res.ret]
        /\ UNCHANGED <<fwRouters, hist, inflight>>

Do_Method ==
    \E self \in RouteIds :
        LET res == Method(routes, self) IN
        /\ routes' = res.heap
        /\ obs' = [op |-> "Method", route |-> self, outcome |-> "returned", ret |-> res.ret]
        /\ UNCHANGED <<fwRouters, hist, inflight>>

Do_Path ==
    \E self \in RouteIds :
        LET res == Path(routes, self) IN
        /\ routes' = res.heap
        /\ obs' = [op |-> "Path", route |-> self, outcome |-> "returned", ret |-> res.ret]
        /\ UNCHANGED <<fwRouters, hist, inflight>>

Do_RouteVars ==
    \E self \in RouteIds :
      \E r \in { q \in Requests : q.method = routes[self].method } :
        LET res == RouteVars(routes, fwRouters, self, r) IN
        /\ routes' = res.heap
        /\ obs' = [op |-> "RouteVars", route |-> self, outcome |-> res.outcome,
                   ret |-> res.ret, request |-> r]
        /\ UNCHANGED <<fwRouters, hist, inflight>>

Do_SetControllerFn ==
    \E self \in RouteIds, fn \in Fns \cup {NilFn} :
        LET res == SetControllerFn(routes, self, fn) IN
        /\ routes' = res.heap
        /\ obs' = [op |-> "SetControllerFn", route |-> self, outcome |-> "returned",
                   ret |-> res.ret, arg |-> fn]
        /\ hist' = [hist EXCEPT ![self].lastFn = fn]
        /\ UNCHANGED <<fwRouters, inflight>>

Do_SetDefaultStatus ==
    \E self \in RouteIds, status \in StatusArgs :
        LET res == SetDefaultStatus(routes, self, status) IN
        /\ routes' = res.heap
        /\ obs' = [op |-> "SetDefaultStatus", route |-> self, outcome |-> "returned",
                   ret |-> res.ret, arg |-> status]
        /\ hist' = [hist EXCEPT ![self].set = TRUE,
                                ![self].code = status,
                                ![self].regSince = FALSE]
        /\ UNCHANGED <<fwRouters, inflight>>

Do_register ==
    \E self \in RouteIds, fn \in Fns \cup {NilFn} :
        /\ Len(fwRouters[Routers[routes[self].router].fwRouter]) < MaxEntries
        /\ LET res == register(routes, fwRouters, self, fn) IN
            /\ routes' = res.heap
            /\ fwRouters' = res.fw
            /\ obs' = [op |-> "register", route |-> self, outcome |-> "returned",
                       ret |-> res.ret, arg |-> fn]
        /\ hist' = [hist EXCEPT ![self].regSince = TRUE, ![self].lastFn = fn]
        /\ UNCHANGED inflight

\* the engine matches a request to an entry of its table and calls the
\* entry's handler, the method value self.handleRequest, which runs to its end
Do_handleRequest ==
    \E a \in AdapterIds, r \in Requests :
        \E e \in DOMAIN fwRouters[a] :
            /\ Matches(fwRouters[a][e], r)
            /\ LET self == fwRouters[a][e].handler
                   req  == [id |-> 1, method |-> r.method, path |-> r.path]
                   res  == handleRequest(routes, self, 1, 1, req)
               IN  /\ routes' = res.heap
                   /\ obs' = [op |-> "handleRequest", route |-> self, outcome |-> res.outcome,
                              entry |-> e, request |-> req, w |-> 1,
                              ctx |-> res.ctx, calls |-> res.calls]
            /\ UNCHANGED <<fwRouters, hist, inflight>>

Next ==
    \/ Do_ControllerFn
    \/ Do_FullPath
    \/ Do_Method
    \/ Do_Path
    \/ Do_RouteVars
    \/ Do_SetControllerFn
    \/ Do_SetDefaultStatus
    \/ Do_register
    \/ Do_handleRequest

Spec == Init /\ [][Next]_vars

----------------------------------------------------------------------------
(* Serving: the setup phase is over and the engine runs handleRequest      *)
(* concurrently, one invocation per inbound request.                       *)

\* a newly allocated object is none of the objects still referenced
FreshId(used) == CHOOSE n \in 1 .. (MaxInFlight + 1) :
                    n \notin used /\ \A m \in 1 .. (n - 1) : m \in used

LiveConns(s) == { inflight[t].w : t \in { u \in Slots \ {s} : inflight[u].pc # "idle" } }

LiveWriters(s) ==
    { inflight[t].ctx.writer.id :
        t \in { u \in Slots \ {s} : inflight[u].pc \in {"built", "done", "panicked"} } }

\* the state the setup phase leaves: every route registered once, r1 after
\* SetDefaultStatus(c), the engine's table complete
InitServing ==
    /\ \E m \in { f \in [RouteIds -> Methods] : \A p \in RouteIds : f[p] \in RoutePlan[p].methods },
          fn2 \in Fns \cup {NilFn}, c \in StatusArgs :
          LET heap0 == [p \in RouteIds |->
                           NewRouteObject(RoutePlan[p].router, m[p], RoutePlan[p].path)]
              s1 == SetDefaultStatus(heap0, "r1", c)
              g1 == register(s1.heap, [a \in AdapterIds |-> <<>>], "r1", "AddKitten")
              g2 == register(g1.heap, g1.fw, "r2", fn2)
          IN  /\ routes = g2.heap
              /\ fwRouters = g2.fw
    /\ obs = NoObs
    /\ hist = [p \in RouteIds |-> NoHist]
    /\ inflight = [s \in Slots |-> Idle]

\* the engine matches an inbound request and enters the entry's handler with
\* that request's own (w, r)
Accept(s) ==
    /\ inflight[s].pc \in {"idle", "done", "panicked"}
    /\ \E a \in AdapterIds, r \in Requests :
        \E e \in DOMAIN fwRouters[a] :
            /\ Matches(fwRouters[a][e], r)
            /\ LET id == FreshId(LiveConns(s)) IN
               inflight' = [inflight EXCEPT ![s] =
                    [pc |-> "entered", route |-> fwRouters[a][e].handler, entry |-> e,
                     w |-> id, request |-> [id |-> id, method |-> r.method, path |-> r.path]]]
    /\ UNCHANGED <<routes, fwRouters, obs, hist>>

\* route.go:65-69
BuildCtx(s) ==
    /\ inflight[s].pc = "entered"
    /\ LET inv == inflight[s]
           ctx == handleRequest_ctx(routes, inv.route, FreshId(LiveWriters(s)), inv.w, inv.request)
       IN  inflight' = [inflight EXCEPT ![s] =
                [pc |-> "built", route |-> inv.route, entry |-> inv.entry, w |-> inv.w,
                 request |-> inv.request, ctx |-> ctx]]
    /\ UNCHANGED <<routes, fwRouters, obs, hist>>

\* route.go:70
CallFn(s) ==
    /\ inflight[s].pc = "built"
    /\ LET inv == inflight[s]
           c   == handleRequest_call(routes, inv.route, inv.ctx)
       IN  inflight' = [inflight EXCEPT ![s] =
                [pc |-> IF c.outcome = "panic" THEN "panicked" ELSE "done",
                 route |-> inv.route, entry |-> inv.entry, w |-> inv.w,
                 request |-> inv.request, ctx |-> inv.ctx, calls |-> c.calls]]
    /\ UNCHANGED <<routes, fwRouters, obs, hist>>

NextServing ==
    \E s \in Slots :
        \/ Accept(s)
        \/ BuildCtx(s)
        \/ CallFn(s)

SpecServing == InitServing /\ [][NextServing]_vars

----------------------------------------------------------------------------
(* Properties *)

\* the status the response wrapper of the last dispatch was seeded with
Seed == obs.ctx.writer.status

\* the entries of the engine's table that NewRoute created for Route p
EntriesOf(p) ==
    { e \in DOMAIN fwRouters[Routers[routes[p].router].fwRouter] :
        fwRouters[Routers[routes[p].router].fwRouter][e].handler = p }

\* C1: register() resolves a defaultStatus of 0 to 201 when the route's
\* method is POST and to 200 for every other method, and leaves a non-zero
\* defaultStatus as it was.
C1_RegisterResolvesDefaultStatus ==
    [][ \A p \in RouteIds :
          (obs'.op = "register" /\ obs'.route = p) =>
              routes'[p].defaultStatus =
                  IF routes[p].defaultStatus = 0
                  THEN IF routes[p].method = "POST" THEN 201 ELSE 200
                  ELSE routes[p].defaultStatus ]_vars

\* C1 witness: register() has just run, the POST route r1 with no override
\* holds 201 and the non-POST route r2 with no override holds 200.
C1_Witness ==
    /\ obs.op = "register"
    /\ routes["r1"].method = "POST" /\ routes["r1"].fwRoute # NilFwRoute
    /\ ~hist["r1"].set /\ routes["r1"].defaultStatus = 201
    /\ routes["r2"].method # "POST" /\ routes["r2"].fwRoute # NilFwRoute
    /\ ~hist["r2"].set /\ routes["r2"].defaultStatus = 200

\* C2 as stated: every dispatch seeds its response wrapper with the code of
\* the most recent SetDefaultStatus call on its Route.
C2_SeedIsLastSetStatus ==
    (obs.op = "handleRequest" /\ hist[obs.route].set) =>
        Seed = hist[obs.route].code

\* C2 amended: every dispatch seeds its response wrapper with the code of the
\* most recent SetDefaultStatus call on its Route, also when that call came
\* after register(); when that code is 0 and register() ran after the call,
\* the seed is the method default (201 for POST, 200 otherwise).
C2_SeedIsLastSetStatusOrDefault ==
    (obs.op = "handleRequest" /\ hist[obs.route].set) =>
        Seed = IF hist[obs.route].code = 0 /\ hist[obs.route].regSince
               THEN IF routes[obs.route].method = "POST" THEN 201 ELSE 200
               ELSE hist[obs.route].code

\* C2 witness: a dispatch after SetDefaultStatus(404) that followed the last
\* register() (no NewRoute call since) is seeded with 404.
C2_Witness ==
    /\ obs.op = "handleRequest"
    /\ hist[obs.route].set /\ ~hist[obs.route].regSince
    /\ hist[obs.route].code = 404
    /\ Seed = 404

\* C3: the status a dispatch seeds its response wrapper with is never 0.
C3_SeedNeverZero ==
    obs.op = "handleRequest" => Seed # 0

\* C4: every entry of the engine's table carries the method and the composed
\* fullPath of the Route whose handler it holds.
C4_EntryPatternIsFullPath ==
    \A a \in AdapterIds : \A e \in DOMAIN fwRouters[a] :
        /\ fwRouters[a][e].method = routes[fwRouters[a][e].handler].method
        /\ fwRouters[a][e].pattern = routes[fwRouters[a][e].handler].fullPath

\* C5: NewRoute is called at most once per Route, so the engine's table
\* never holds two entries for the same Route.
C5_AtMostOneNewRoutePerRoute ==
    \A p \in RouteIds : Cardinality(EntriesOf(p)) <= 1

\* C6: a dispatch to a Route whose controllerFn is nil ends in a panic and
\* runs no handler; it never returns normally.
C6_NilControllerFnPanics ==
    (obs.op = "handleRequest" /\ hist[obs.route].lastFn = NilFn) =>
        /\ obs.outcome = "panic"
        /\ obs.calls = <<>>

\* C6 witness: a dispatch through a registered entry hit a nil controllerFn.
C6_Witness ==
    /\ obs.op = "handleRequest"
    /\ obs.entry \in EntriesOf(obs.route)
    /\ routes[obs.route].controllerFn = NilFn
    /\ obs.outcome = "panic"

\* C7: RouteVars before register() panics; after register() it returns what
\* the handle of the Route's NewRoute call returns for the same request,
\* the empty mapping when the pattern has no placeholder.
C7_RouteVarsDelegates ==
    obs.op = "RouteVars" =>
        IF EntriesOf(obs.route) = {}
        THEN obs.outcome = "panic"
        ELSE /\ obs.outcome = "returned"
             /\ \A e \in EntriesOf(obs.route) :
                   obs.ret = FrameworkRouteVars(
                       fwRouters[Routers[routes[obs.route].router].fwRouter][e], obs.request)
             /\ VarNames(routes[obs.route].path) = {} => obs.ret = <<>>
             /\ (routes[obs.route].path = <<Var("id")>> /\ Len(obs.request.path) >= 1) =>
                   obs.ret = [n \in {"id"} |-> obs.request.path[1]]

\* C7 witness: RouteVars was called on a Route that was never registered and
\* panicked, while the other Route is registered.
C7_Witness ==
    /\ obs.op = "RouteVars"
    /\ EntriesOf(obs.route) = {}
    /\ obs.outcome = "panic"
    /\ \E q \in RouteIds \ {obs.route} : EntriesOf(q) # {}

\* the invocations that have built their context
WithCtx == { s \in Slots : inflight[s].pc \in {"built", "done", "panicked"} }

C8_State ==
    /\ \A s \in WithCtx :
          /\ inflight[s].ctx.request = inflight[s].request
          /\ inflight[s].ctx.writer.w = inflight[s].w
          /\ inflight[s].ctx.route = inflight[s].route
          /\ inflight[s].ctx.route =
                fwRouters[Routers[routes[inflight[s].route].router].fwRouter][inflight[s].entry].handler
    /\ \A s \in WithCtx, t \in WithCtx :
          s # t => /\ inflight[s].ctx.writer.id # inflight[t].ctx.writer.id
                   /\ inflight[s].ctx.request.id # inflight[t].ctx.request.id
    /\ \A s \in Slots :
          /\ inflight[s].pc = "done" =>
                /\ Len(inflight[s].calls) = 1
                /\ inflight[s].calls[1].fn = routes[inflight[s].route].controllerFn
                /\ inflight[s].calls[1].ctx = inflight[s].ctx
          /\ inflight[s].pc = "panicked" =>
                /\ routes[inflight[s].route].controllerFn = NilFn
                /\ inflight[s].calls = <<>>

\* C8: under every interleaving of concurrent handleRequest invocations, each
\* invocation's context holds its own request, its own fresh response wrapper
\* and its Route, each finished invocation called controllerFn exactly once
\* with that context (a nil controllerFn panics instead), no two invocations
\* share a request or a wrapper, and no step writes any field of a Route.
C8_ConcurrentDispatchIndependent ==
    /\ []C8_State
    /\ [][routes' = routes]_vars

\* C8 witness: two invocations on the same Route are in flight at once, one
\* finished and one with its context built, for different requests.
C8_Witness ==
    \E s \in Slots, t \in Slots :
        /\ s # t
        /\ inflight[s].pc = "done" /\ inflight[t].pc = "built"
        /\ inflight[s].route = inflight[t].route
        /\ inflight[s].request.path # inflight[t].request.path

\* C9: ControllerFn() returns the function of the most recent register or
\* SetControllerFn call, and a dispatch invokes that function and no other,
\* whichever entry of the engine it comes through.
C9_LastControllerFnWins ==
    /\ (obs.op \in {"register", "SetControllerFn"}) =>
          routes[obs.route].controllerFn = obs.arg
    /\ obs.op = "ControllerFn" => obs.ret = hist[obs.route].lastFn
    /\ obs.op = "handleRequest" =>
          /\ Len(obs.calls) <= 1
          /\ \A i \in DOMAIN obs.calls : obs.calls[i].fn = hist[obs.route].lastFn
          /\ hist[obs.route].lastFn # NilFn => Len(obs.calls) = 1

\* C9 witness: a Route registered twice is dispatched through the entry of
\* its first register call and runs the function attached last.
C9_Witness ==
    /\ obs.op = "handleRequest"
    /\ Cardinality(EntriesOf(obs.route)) >= 2
    /\ obs.entry # routes[obs.route].fwRoute
    /\ Len(obs.calls) = 1
    /\ obs.calls[1].fn = hist[obs.route].lastFn

\* the fields of Route p that are fixed at creation
Fixed(rs, p) == <<rs[p].method, rs[p].path, rs[p].fullPath, rs[p].router>>

\* C10: no call changes a Route's method, path, fullPath or router; the
\* accessors, RouteVars and handleRequest change no field; SetControllerFn
\* changes only controllerFn and SetDefaultStatus only defaultStatus, of the
\* receiver alone, and each returns the receiver.
C10_Frame ==
    [][ /\ \A p \in RouteIds : Fixed(routes', p) = Fixed(routes, p)
        /\ obs'.op \in {"Method", "Path", "FullPath", "ControllerFn",
                        "RouteVars", "handleRequest"} =>
              routes' = routes /\ fwRouters' = fwRouters
        /\ obs'.op = "SetControllerFn" =>
              /\ routes' = [routes EXCEPT ![obs'.route].controllerFn = obs'.arg]
              /\ fwRouters' = fwRouters
              /\ obs'.ret = obs'.route
        /\ obs'.op = "SetDefaultStatus" =>
              /\ routes' = [routes EXCEPT ![obs'.route].defaultStatus = obs'.arg]
              /\ fwRouters' = fwRouters
              /\ obs'.ret = obs'.route ]_vars

\* C10 witness: SetDefaultStatus(404) returned its receiver, a registered
\* Route under the sub-router whose fullPath is still prefix + path.
C10_Witness ==
    /\ obs.op = "SetDefaultStatus" /\ obs.arg = 404
    /\ obs.ret = obs.route
    /\ routes[obs.route].fwRoute # NilFwRoute
    /\ routes[obs.route].controllerFn # NilFn
    /\ routes[obs.route].path # routes[obs.route].fullPath
    /\ routes[obs.route].fullPath = <<Lit("kittens"), Var("id")>>

====
